---------------------------- MODULE Spec2Model ----------------------------
(***************************************************************************)
(* The chunk-dispatch-and-merge pipeline of src/app.py:                    *)
(* get_rhyme_analysis_from_claude plans overlapping chunks of the input    *)
(* text, sends each chunk to the inference service, validates and clamps   *)
(* the segments of each answer and merges them into                        *)
(* processed_segment_groups.  analyze_text_route answers a request from    *)
(* memory_cache or runs that analysis and stores what it returns.          *)
(*                                                                         *)
(* Spec, SpecWords and SpecAll follow one analysis step by step, SpecPlan  *)
(* the chunk planning alone, SpecRoute the route and the cache under two   *)
(* request threads, SpecParse the search for JSON in one response text.    *)
(*                                                                         *)
(* Strings are sequences of one-character strings.  Sequences are 1-based  *)
(* here, offsets and indices keep the 0-based values of the code.          *)
(***************************************************************************)
EXTENDS Integers, Sequences, FiniteSets, TLC

VARIABLES
    rhyme_scheme_key,             \* the scheme of the request
    calls,                        \* start offsets of the chunks sent to the service so far
    warnings,                     \* chunks whose response was reported unusable (lines 466-467, 518)
    text_to_analyze,              \* the validated (stripped) request text
    MAX_CHARS_PER_CHUNK_RHYME,    \* chunk size of the configuration
    CHUNK_OVERLAP_CHARS_RHYME,    \* chunk overlap of the configuration
    pc,                           \* position inside get_rhyme_analysis_from_claude
    chunk_starts,                 \* list of chunk start offsets
    current_pos,                  \* loop variable of the planning loop
    chunk_idx,                    \* 1-based position in chunk_starts of the chunk in hand
    processed_segment_groups,     \* the merged result
    group_data_from_ai,           \* the group record in hand (id, description)
    valid_segments_in_this_ai_group,
    seg_taken,                    \* a segment record of this group has been taken
    result,                       \* what the function returned (once pc = "done")
    memory_cache,                 \* the dict of memory_cache, its items in insertion order
    max_size,                     \* capacity of memory_cache
    lock,                         \* the thread holding memory_cache._lock, or NoThread
    route_pc,                     \* position of each request thread in analyze_text_route
    route_text,                   \* text_to_analyze of the route, per thread
    route_scheme,                 \* rhyme_scheme_key of the route (a string in pieces), per thread
    route_result,                 \* result of the route (line 600), per thread
    response,                     \* the response each thread sent last
    parse_pc,                     \* position inside lines 455-467 for one response
    raw_response_text,            \* the text of one response of the service
    json_str,                     \* the JSON text located in it
    claude_output_chunk           \* what json_str decodes to

\* the variables of one run of get_rhyme_analysis_from_claude
aggVars == <<rhyme_scheme_key, calls, warnings, text_to_analyze,
             MAX_CHARS_PER_CHUNK_RHYME, CHUNK_OVERLAP_CHARS_RHYME,
             pc, chunk_starts, current_pos, chunk_idx, processed_segment_groups,
             group_data_from_ai, valid_segments_in_this_ai_group, seg_taken,
             result>>

\* the variables of the route and of its cache
routeVars == <<memory_cache, max_size, lock, route_pc, route_text, route_scheme,
               route_result, response>>

\* the variables of the extraction of the JSON object from one response
parseVars == <<parse_pc, raw_response_text, json_str, claude_output_chunk>>

vars == <<aggVars, routeVars, parseVars>>

---------------------------------------------------------------------------
(* Bounds of the model *)

\* valid segments one request holds, merged and in hand together
MaxSegmentsHeld == 3
\* longest text, largest chunk size and largest overlap of the planner specification
PlanMaxLen == 11
PlanMaxWindow == 8
PlanMaxOverlap == 9

---------------------------------------------------------------------------
(* Helpers *)

Min(a, b) == IF a <= b THEN a ELSE b
Max(a, b) == IF a >= b THEN a ELSE b

\* characters of the texts: a letter and a blank
Chars == {"a", " "}

\* str.strip() leaves the text alone: it neither starts nor ends with a blank
IsStripped(t) == Len(t) > 0 /\ t[1] /= " " /\ t[Len(t)] /= " "

\* Python slice s[a:b] for 0 <= a, b (0-based, end exclusive, clipped at len(s))
Slice(s, a, b) == SubSeq(s, a + 1, Min(b, Len(s)))

\* not chunk.strip(): the chunk holds blanks only
IsBlank(s) == \A i \in 1..Len(s) : s[i] = " "

original_text_length == Len(text_to_analyze)

---------------------------------------------------------------------------
(* Chunk planning, lines 408-420 *)

\* lines 412-414: the advance of one iteration
next_increment ==
    LET d == MAX_CHARS_PER_CHUNK_RHYME - CHUNK_OVERLAP_CHARS_RHYME
    IN  IF d <= 0
        THEN (IF MAX_CHARS_PER_CHUNK_RHYME > 0 THEN MAX_CHARS_PER_CHUNK_RHYME \div 2 ELSE 1)
        ELSE d

\* lines 415-419: the position after one iteration
NextPos(pos) ==
    LET next_pos_candidate == pos + next_increment
    IN  IF next_pos_candidate <= pos /\ original_text_length > MAX_CHARS_PER_CHUNK_RHYME
        THEN pos + 1
        ELSE next_pos_candidate

\* line 423: end offset of the chunk that starts at s
ChunkEnd(s) == Min(s + MAX_CHARS_PER_CHUNK_RHYME, original_text_length)

\* line 424: text of the chunk that starts at s
ChunkText(s) == Slice(text_to_analyze, s, ChunkEnd(s))

\* One iteration of the while loop of lines 410-419.  The loop has no bound of its
\* own; the model stops following it once it has made more iterations than the text
\* has characters, which a loop that advances every time never does.
PlanStep ==
    /\ pc = "plan"
    /\ current_pos < original_text_length
    /\ Len(chunk_starts) <= original_text_length
    /\ chunk_starts' = Append(chunk_starts, current_pos)
    /\ current_pos' = NextPos(current_pos)
    /\ UNCHANGED <<parseVars, routeVars, rhyme_scheme_key, calls, warnings, text_to_analyze, MAX_CHARS_PER_CHUNK_RHYME, CHUNK_OVERLAP_CHARS_RHYME,
                   pc, chunk_idx, processed_segment_groups, group_data_from_ai,
                   valid_segments_in_this_ai_group, seg_taken, result>>

\* The while loop exits (line 410 false); line 420 adds nothing, the list is not
\* empty for a non-empty text.  The for loop of line 422 starts.
PlanDone ==
    /\ pc = "plan"
    /\ current_pos >= original_text_length
    /\ pc' = "chunks"
    /\ chunk_idx' = 1
    /\ UNCHANGED <<parseVars, routeVars, rhyme_scheme_key, calls, warnings, text_to_analyze, MAX_CHARS_PER_CHUNK_RHYME, CHUNK_OVERLAP_CHARS_RHYME,
                   chunk_starts, current_pos, processed_segment_groups,
                   group_data_from_ai, valid_segments_in_this_ai_group, seg_taken, result>>

NoGroup == [phonetic_link_id |-> "none", pattern_description |-> "none"]

\* the request threads of the server
Threads == {"t1", "t2"}

\* no thread holds the lock
NoThread == "none"

\* no response sent yet
NoResponse == [status |-> 0, body |-> <<>>]

\* json_str of line 456: None
NoneStr == <<"None">>

\* no response is being read
ParseIdle ==
    /\ parse_pc = "idle"
    /\ raw_response_text = <<>>
    /\ json_str = NoneStr
    /\ claude_output_chunk = "None"

\* no request is in the route and memory_cache is as line 177 constructs it
RouteIdle(capacity) ==
    /\ memory_cache = <<>>
    /\ max_size = capacity
    /\ lock = NoThread
    /\ route_pc = [t \in Threads |-> "idle"]
    /\ route_text = [t \in Threads |-> <<>>]
    /\ route_scheme = [t \in Threads |-> <<>>]
    /\ route_result = [t \in Threads |-> <<>>]
    /\ response = [t \in Threads |-> NoResponse]

\* State at line 408 for a given text and configuration
Start(t, maxw, ov) ==
    /\ RouteIdle(1)
    /\ ParseIdle
    /\ rhyme_scheme_key = "phonetic_architecture"
    /\ calls = <<>>
    /\ warnings = <<>>
    /\ text_to_analyze = t
    /\ MAX_CHARS_PER_CHUNK_RHYME = maxw
    /\ CHUNK_OVERLAP_CHARS_RHYME = ov
    /\ pc = "plan"
    /\ chunk_starts = <<>>
    /\ current_pos = 0
    /\ chunk_idx = 0
    /\ processed_segment_groups = <<>>
    /\ group_data_from_ai = NoGroup
    /\ valid_segments_in_this_ai_group = <<>>
    /\ seg_taken = FALSE
    /\ result = <<>>

\* Planner specification: any text length, any chunk size >= 1, any overlap >= 0
InitPlan ==
    \E n \in 1..PlanMaxLen, maxw \in 1..PlanMaxWindow, ov \in 0..PlanMaxOverlap :
        Start([i \in 1..n |-> "a"], maxw, ov)

NextPlan == PlanStep \/ PlanDone

SpecPlan == InitPlan /\ [][NextPlan]_vars

---------------------------------------------------------------------------
(* Dispatch of the chunks, lines 422-467 and 528-557 *)

\* start offset of the chunk in hand (chunk_start_offset of line 422)
chunk_start_offset == chunk_starts[chunk_idx]

\* line 425: a chunk of blanks is skipped without a call
SkipBlankChunk ==
    /\ pc = "chunks"
    /\ chunk_idx <= Len(chunk_starts)
    /\ IsBlank(ChunkText(chunk_start_offset))
    /\ chunk_idx' = chunk_idx + 1
    /\ UNCHANGED <<parseVars, routeVars, rhyme_scheme_key, calls, warnings, text_to_analyze, MAX_CHARS_PER_CHUNK_RHYME, CHUNK_OVERLAP_CHARS_RHYME,
                   pc, chunk_starts, current_pos, processed_segment_groups,
                   group_data_from_ai, valid_segments_in_this_ai_group, seg_taken, result>>

\* CallClaude, were a chunk of blanks sent as well
CallClaude_BlankChunkToo ==
    /\ pc = "chunks"
    /\ chunk_idx <= Len(chunk_starts)
    /\ pc' = "call"
    /\ calls' = Append(calls, chunk_start_offset)
    /\ UNCHANGED <<parseVars, routeVars, rhyme_scheme_key, warnings, text_to_analyze, MAX_CHARS_PER_CHUNK_RHYME, CHUNK_OVERLAP_CHARS_RHYME,
                   chunk_starts, current_pos, chunk_idx, processed_segment_groups,
                   group_data_from_ai, valid_segments_in_this_ai_group, seg_taken, result>>

\* lines 427-454: the prompt is built and client.messages.create is called
CallClaude ==
    /\ pc = "chunks"
    /\ chunk_idx <= Len(chunk_starts)
    /\ ~IsBlank(ChunkText(chunk_start_offset))
    /\ pc' = "call"
    /\ calls' = Append(calls, chunk_start_offset)
    /\ UNCHANGED <<parseVars, routeVars, rhyme_scheme_key, warnings, text_to_analyze, MAX_CHARS_PER_CHUNK_RHYME, CHUNK_OVERLAP_CHARS_RHYME,
                   chunk_starts, current_pos, chunk_idx, processed_segment_groups,
                   group_data_from_ai, valid_segments_in_this_ai_group, seg_taken, result>>

\* lines 533 and 538: the item returned when a call raises
ErrorItem == [error_message |-> "analysis failed"]

\* CallFails, were the groups merged so far returned when a call raises
CallFails_PartialResult ==
    /\ pc = "call"
    /\ pc' = "done"
    /\ result' = processed_segment_groups
    /\ UNCHANGED <<parseVars, routeVars, rhyme_scheme_key, calls, warnings, text_to_analyze, MAX_CHARS_PER_CHUNK_RHYME,
                   CHUNK_OVERLAP_CHARS_RHYME, chunk_starts, current_pos, chunk_idx,
                   processed_segment_groups, group_data_from_ai,
                   valid_segments_in_this_ai_group, seg_taken>>

\* CallFails, were the chunk whose call raised sent again
CallFails_Retries ==
    /\ pc = "call"
    /\ pc' = "chunks"
    /\ UNCHANGED <<parseVars, routeVars, rhyme_scheme_key, calls, warnings, text_to_analyze,
                   MAX_CHARS_PER_CHUNK_RHYME, CHUNK_OVERLAP_CHARS_RHYME,
                   chunk_starts, current_pos, chunk_idx, processed_segment_groups,
                   group_data_from_ai, valid_segments_in_this_ai_group, seg_taken, result>>

\* lines 528-538: the call raises; the function returns the error item alone
CallFails ==
    /\ pc = "call"
    /\ pc' = "done"
    /\ result' = <<ErrorItem>>
    /\ UNCHANGED <<parseVars, routeVars, rhyme_scheme_key, calls, warnings, text_to_analyze, MAX_CHARS_PER_CHUNK_RHYME, CHUNK_OVERLAP_CHARS_RHYME,
                   chunk_starts, current_pos, chunk_idx, processed_segment_groups,
                   group_data_from_ai, valid_segments_in_this_ai_group, seg_taken>>

\* lines 463-469: the response decodes to the empty object {}; line 469 finds it
\* falsy, so the chunk adds nothing and nothing is printed
ResponseEmptyObject ==
    /\ pc = "call"
    /\ pc' = "chunks"
    /\ chunk_idx' = chunk_idx + 1
    /\ UNCHANGED <<parseVars, routeVars, rhyme_scheme_key, calls, warnings, text_to_analyze,
                   MAX_CHARS_PER_CHUNK_RHYME, CHUNK_OVERLAP_CHARS_RHYME,
                   chunk_starts, current_pos, processed_segment_groups,
                   group_data_from_ai, valid_segments_in_this_ai_group, seg_taken, result>>

\* ResponseMalformed, were an unusable response the end of the request
ResponseMalformed_Aborts ==
    /\ pc = "call"
    /\ pc' = "done"
    /\ result' = <<ErrorItem>>
    /\ warnings' = Append(warnings, chunk_start_offset)
    /\ UNCHANGED <<parseVars, routeVars, rhyme_scheme_key, calls, text_to_analyze,
                   MAX_CHARS_PER_CHUNK_RHYME, CHUNK_OVERLAP_CHARS_RHYME,
                   chunk_starts, current_pos, chunk_idx, processed_segment_groups,
                   group_data_from_ai, valid_segments_in_this_ai_group, seg_taken>>

\* lines 455-467 and 517-518: no JSON object is found, it does not decode, or
\* 'phonetic_segment_groups' is missing or no list: a warning is printed and the
\* chunk adds nothing
ResponseMalformed ==
    /\ pc = "call"
    /\ pc' = "chunks"
    /\ chunk_idx' = chunk_idx + 1
    /\ warnings' = Append(warnings, chunk_start_offset)
    /\ UNCHANGED <<parseVars, routeVars, rhyme_scheme_key, calls, text_to_analyze, MAX_CHARS_PER_CHUNK_RHYME, CHUNK_OVERLAP_CHARS_RHYME,
                   chunk_starts, current_pos, processed_segment_groups,
                   group_data_from_ai, valid_segments_in_this_ai_group, seg_taken, result>>

\* lines 455-472: the response decodes to an object with a list under
\* 'phonetic_segment_groups'; the loop over its group records starts
ResponseParsed ==
    /\ pc = "call"
    /\ rhyme_scheme_key = "phonetic_architecture"
    /\ pc' = "groups"
    /\ UNCHANGED <<parseVars, routeVars, rhyme_scheme_key, calls, warnings, text_to_analyze, MAX_CHARS_PER_CHUNK_RHYME, CHUNK_OVERLAP_CHARS_RHYME,
                   chunk_starts, current_pos, chunk_idx, processed_segment_groups,
                   group_data_from_ai, valid_segments_in_this_ai_group, seg_taken, result>>

\* the loop of line 472 is over: next chunk.  The loop variable group_data_from_ai
\* is not read again before line 472 sets it, and is cleared here.
EndResponse ==
    /\ pc = "groups"
    /\ pc' = "chunks"
    /\ chunk_idx' = chunk_idx + 1
    /\ group_data_from_ai' = NoGroup
    /\ UNCHANGED <<parseVars, routeVars, rhyme_scheme_key, calls, warnings, text_to_analyze, MAX_CHARS_PER_CHUNK_RHYME, CHUNK_OVERLAP_CHARS_RHYME,
                   chunk_starts, current_pos, processed_segment_groups,
                   valid_segments_in_this_ai_group, seg_taken, result>>

\* lines 540-557: the loop of line 422 is over; processed_segment_groups is returned
Return ==
    /\ pc = "chunks"
    /\ chunk_idx > Len(chunk_starts)
    /\ pc' = "done"
    /\ result' = processed_segment_groups
    /\ UNCHANGED <<parseVars, routeVars, rhyme_scheme_key, calls, warnings, text_to_analyze, MAX_CHARS_PER_CHUNK_RHYME, CHUNK_OVERLAP_CHARS_RHYME,
                   chunk_starts, current_pos, chunk_idx, processed_segment_groups,
                   group_data_from_ai, valid_segments_in_this_ai_group, seg_taken>>

---------------------------------------------------------------------------
(* Validation and clamping of one group record, lines 472-493 *)

\* what the service may send: identifiers, descriptions, parent words, segment texts
LinkIds == {"g1", "g2"}
Descriptions == {"d1", "d2"}
ParentWords == {"w1", "w2"}
SegmentTexts == {<<"a">>}

\* reported indices: below the text, inside it, and (for the shorter texts) past
\* its end
ReportedIndices == {0 - 1, 0, 1, 2}

\* well-formed segment records (the checks of lines 479-482 pass); the two
\* in-parent indices are carried along untouched and left out
RawSegments ==
    [text : SegmentTexts, parent_word_text : ParentWords,
     globalStartIndex : ReportedIndices, globalEndIndex : ReportedIndices]

\* line 487
ClampStart(gs) == Max(0, Min(gs, original_text_length - 1))
\* line 488
ClampEnd(ge) == Max(0, Min(ge, original_text_length))

\* line 490
IndicesValid(gs_clamped, ge_clamped) ==
    0 <= gs_clamped /\ gs_clamped < ge_clamped /\ ge_clamped <= original_text_length

\* Clamped without lines 491-492: the reported indices are kept
Clamped_IndicesKept(seg) == seg

\* lines 491-492: the segment with its indices overwritten by the clamped ones
Clamped(seg) ==
    [seg EXCEPT !.globalStartIndex = ClampStart(seg.globalStartIndex),
                !.globalEndIndex = ClampEnd(seg.globalEndIndex)]

\* lines 484-493: the list of valid segments after one well-formed segment record
AfterSegment(valid, seg) ==
    IF IndicesValid(ClampStart(seg.globalStartIndex), ClampEnd(seg.globalEndIndex))
    THEN Append(valid, Clamped(seg))
    ELSE valid

\* lines 472-477: a group record that passes the checks of lines 473-475 is taken
BeginGroup(id, desc) ==
    /\ pc = "groups"
    /\ pc' = "segments"
    /\ group_data_from_ai' = [phonetic_link_id |-> id, pattern_description |-> desc]
    /\ valid_segments_in_this_ai_group' = <<>>
    /\ seg_taken' = FALSE
    /\ UNCHANGED <<parseVars, routeVars, rhyme_scheme_key, calls, warnings, text_to_analyze, MAX_CHARS_PER_CHUNK_RHYME, CHUNK_OVERLAP_CHARS_RHYME,
                   chunk_starts, current_pos, chunk_idx, processed_segment_groups, result>>

\* lines 473-475 and 515-516: a group record that is no object, lacks a key or has
\* no segments is passed over
BadGroupRecord ==
    /\ pc = "groups"
    /\ group_data_from_ai' = NoGroup
    /\ UNCHANGED <<parseVars, routeVars, rhyme_scheme_key, calls, warnings, text_to_analyze, MAX_CHARS_PER_CHUNK_RHYME, CHUNK_OVERLAP_CHARS_RHYME,
                   pc, chunk_starts, current_pos, chunk_idx, processed_segment_groups,
                   valid_segments_in_this_ai_group, seg_taken, result>>

\* number of segments in the merged result
RECURSIVE SegmentsMerged(_)
SegmentsMerged(groups) ==
    IF groups = <<>> THEN 0
    ELSE Len(Head(groups).segments) + SegmentsMerged(Tail(groups))

\* lines 478-493: one well-formed segment record of the group in hand
ValidateSegment(seg) ==
    /\ pc = "segments"
    /\ SegmentsMerged(processed_segment_groups)
           + Len(valid_segments_in_this_ai_group) < MaxSegmentsHeld
    /\ valid_segments_in_this_ai_group' = AfterSegment(valid_segments_in_this_ai_group, seg)
    /\ seg_taken' = TRUE
    /\ UNCHANGED <<parseVars, routeVars, rhyme_scheme_key, calls, warnings, text_to_analyze, MAX_CHARS_PER_CHUNK_RHYME, CHUNK_OVERLAP_CHARS_RHYME,
                   pc, chunk_starts, current_pos, chunk_idx, processed_segment_groups,
                   group_data_from_ai, result>>

\* lines 479-482: a segment record that lacks a field or has one of the wrong type
\* is dropped
DropMalformedSegment ==
    /\ pc = "segments"
    /\ seg_taken' = TRUE
    /\ UNCHANGED <<parseVars, routeVars, rhyme_scheme_key, calls, warnings, text_to_analyze, MAX_CHARS_PER_CHUNK_RHYME, CHUNK_OVERLAP_CHARS_RHYME,
                   pc, chunk_starts, current_pos, chunk_idx, processed_segment_groups,
                   group_data_from_ai, valid_segments_in_this_ai_group, result>>

---------------------------------------------------------------------------
(* Merge of one group record, lines 495-514 *)

\* lines 501-506
is_duplicate_segment(segments, new_seg) ==
    \E i \in 1..Len(segments) :
        /\ segments[i].globalStartIndex = new_seg.globalStartIndex
        /\ segments[i].globalEndIndex = new_seg.globalEndIndex
        /\ segments[i].parent_word_text = new_seg.parent_word_text

\* lines 499-508: the new segments are appended one by one, each checked against
\* the list as it is by then
RECURSIVE AppendNewSegments(_, _)
AppendNewSegments(segments, new_segs) ==
    IF new_segs = <<>>
    THEN segments
    ELSE AppendNewSegments(
             IF is_duplicate_segment(segments, Head(new_segs))
             THEN segments
             ELSE Append(segments, Head(new_segs)),
             Tail(new_segs))

\* ExistingGroup looking at the last group only
ExistingGroup_LastOnly(groups, id) ==
    IF groups /= <<>> /\ groups[Len(groups)].phonetic_link_id = id
    THEN Len(groups)
    ELSE 0

\* line 497: position of the first group with this identifier, 0 when there is none
ExistingGroup(groups, id) ==
    IF \E i \in 1..Len(groups) : groups[i].phonetic_link_id = id
    THEN CHOOSE i \in 1..Len(groups) :
             /\ groups[i].phonetic_link_id = id
             /\ \A j \in 1..(i - 1) : groups[j].phonetic_link_id /= id
    ELSE 0

\* MergedGroups with the description of an existing group overwritten by the
\* incoming one
MergedGroups_DescriptionOverwritten(groups, group_data, valid) ==
    IF valid = <<>>
    THEN groups
    ELSE LET e == ExistingGroup(groups, group_data.phonetic_link_id)
         IN  IF e /= 0
             THEN [groups EXCEPT ![e].segments = AppendNewSegments(@, valid),
                                 ![e].pattern_description = group_data.pattern_description]
             ELSE Append(groups,
                         [phonetic_link_id |-> group_data.phonetic_link_id,
                          pattern_description |-> group_data.pattern_description,
                          segments |-> valid])

\* MergedGroups with a new group put in front of the groups already there
MergedGroups_NewestFirst(groups, group_data, valid) ==
    IF valid = <<>>
    THEN groups
    ELSE LET e == ExistingGroup(groups, group_data.phonetic_link_id)
         IN  IF e /= 0
             THEN [groups EXCEPT ![e].segments = AppendNewSegments(@, valid)]
             ELSE <<[phonetic_link_id |-> group_data.phonetic_link_id,
                     pattern_description |-> group_data.pattern_description,
                     segments |-> valid]>> \o groups

\* MergedGroups without the test of line 495: a record with no valid segment is
\* merged like any other
MergedGroups_EmptyGroupKept(groups, group_data, valid) ==
    LET e == ExistingGroup(groups, group_data.phonetic_link_id)
    IN  IF e /= 0
        THEN [groups EXCEPT ![e].segments = AppendNewSegments(@, valid)]
        ELSE Append(groups,
                    [phonetic_link_id |-> group_data.phonetic_link_id,
                     pattern_description |-> group_data.pattern_description,
                     segments |-> valid])

\* lines 495-514: the merged result after a group record with these valid segments
MergedGroups(groups, group_data, valid) ==
    IF valid = <<>>
    THEN groups
    ELSE LET e == ExistingGroup(groups, group_data.phonetic_link_id)
         IN  IF e /= 0
             THEN [groups EXCEPT ![e].segments = AppendNewSegments(@, valid)]
             ELSE Append(groups,
                         [phonetic_link_id |-> group_data.phonetic_link_id,
                          pattern_description |-> group_data.pattern_description,
                          segments |-> valid])

\* lines 495-514: the segment list of the record is exhausted (it had at least one
\* record, line 475) and the group is merged; back to the loop of line 472.  The
\* list of valid segments is not read again before line 477 empties it, and is
\* emptied here.
MergeGroup ==
    /\ pc = "segments"
    /\ seg_taken
    /\ processed_segment_groups' =
           MergedGroups(processed_segment_groups, group_data_from_ai,
                        valid_segments_in_this_ai_group)
    /\ pc' = "groups"
    /\ valid_segments_in_this_ai_group' = <<>>
    /\ seg_taken' = FALSE
    /\ UNCHANGED <<parseVars, routeVars, rhyme_scheme_key, calls, warnings, text_to_analyze, MAX_CHARS_PER_CHUNK_RHYME, CHUNK_OVERLAP_CHARS_RHYME,
                   chunk_starts, current_pos, chunk_idx, group_data_from_ai, result>>

---------------------------------------------------------------------------
(* The word-based schemes, lines 519-525 *)

\* the schemes of CLAUDE_SYSTEM_PROMPTS other than phonetic_architecture
WordSchemes == {"couplets_aa_bb", "alternating_abab", "enclosed_abba"}

\* the records a 'rhyme_groups' list may hold; the code never looks inside one
WordRecords == {"r1", "r2"}

\* the lists found under 'rhyme_groups', each without a repeated record
RhymeGroupLists == {<<>>, <<"r1">>, <<"r2">>, <<"r1", "r2">>, <<"r2", "r1">>}

\* line 524: an item of this scheme with exactly this list is there already
ListAlreadyThere(rhyme_groups) ==
    \E i \in 1..Len(processed_segment_groups) :
        /\ processed_segment_groups[i].type = rhyme_scheme_key
        /\ processed_segment_groups[i].data = rhyme_groups

\* lines 519-525: the response of a chunk holds a list under 'rhyme_groups'; the
\* whole list is appended as one item unless an item with an equal list exists
WordListResponse(rhyme_groups) ==
    /\ pc = "call"
    /\ rhyme_scheme_key /= "phonetic_architecture"
    /\ processed_segment_groups' =
          IF ListAlreadyThere(rhyme_groups)
          THEN processed_segment_groups
          ELSE Append(processed_segment_groups,
                      [type |-> rhyme_scheme_key, data |-> rhyme_groups])
    /\ pc' = "chunks"
    /\ chunk_idx' = chunk_idx + 1
    /\ UNCHANGED <<parseVars, routeVars, rhyme_scheme_key, calls, warnings, text_to_analyze,
                   MAX_CHARS_PER_CHUNK_RHYME, CHUNK_OVERLAP_CHARS_RHYME,
                   chunk_starts, current_pos, group_data_from_ai,
                   valid_segments_in_this_ai_group, seg_taken, result>>

\* lines 469-519: the response is an object without a list under 'rhyme_groups';
\* neither branch is taken, the chunk adds nothing and nothing is printed
ResponseWithoutRhymeGroups ==
    /\ pc = "call"
    /\ rhyme_scheme_key /= "phonetic_architecture"
    /\ pc' = "chunks"
    /\ chunk_idx' = chunk_idx + 1
    /\ UNCHANGED <<parseVars, routeVars, rhyme_scheme_key, calls, warnings, text_to_analyze,
                   MAX_CHARS_PER_CHUNK_RHYME, CHUNK_OVERLAP_CHARS_RHYME,
                   chunk_starts, current_pos, processed_segment_groups,
                   group_data_from_ai, valid_segments_in_this_ai_group, seg_taken, result>>

---------------------------------------------------------------------------
(* One request of the segment-style scheme *)

\* The requests followed: a text of one chunk, a text of two overlapping chunks,
\* and a text of three chunks the middle one of which is blank.  Each text is as
\* validate_text_input returns it, and the overlap is smaller than the chunk size.
Requests ==
    { [text |-> <<"a">>, max_chars |-> 2, overlap |-> 1],
      [text |-> <<"a", "a">>, max_chars |-> 2, overlap |-> 1],
      [text |-> <<"a", " ", "a">>, max_chars |-> 1, overlap |-> 0] }

Init ==
    \E r \in Requests :
        /\ IsStripped(r.text)
        /\ Start(r.text, r.max_chars, r.overlap)

Next ==
    \/ PlanStep
    \/ PlanDone
    \/ SkipBlankChunk
    \/ CallClaude
    \/ CallFails
    \/ ResponseMalformed
    \/ ResponseEmptyObject
    \/ ResponseParsed
    \/ EndResponse
    \/ Return
    \/ \E id \in LinkIds, desc \in Descriptions : BeginGroup(id, desc)
    \/ BadGroupRecord
    \/ \E seg \in RawSegments : ValidateSegment(seg)
    \/ DropMalformedSegment
    \/ MergeGroup

Spec == Init /\ [][Next]_vars

---------------------------------------------------------------------------
(* One request of a word-based scheme, and one request of either kind *)

\* get_rhyme_analysis_from_claude is entered with a word-based scheme
StartWords(t, maxw, ov, scheme) ==
    /\ RouteIdle(1)
    /\ ParseIdle
    /\ rhyme_scheme_key = scheme
    /\ calls = <<>>
    /\ warnings = <<>>
    /\ text_to_analyze = t
    /\ MAX_CHARS_PER_CHUNK_RHYME = maxw
    /\ CHUNK_OVERLAP_CHARS_RHYME = ov
    /\ pc = "plan"
    /\ chunk_starts = <<>>
    /\ current_pos = 0
    /\ chunk_idx = 0
    /\ processed_segment_groups = <<>>
    /\ group_data_from_ai = NoGroup
    /\ valid_segments_in_this_ai_group = <<>>
    /\ seg_taken = FALSE
    /\ result = <<>>

InitWords ==
    \E r \in Requests, scheme \in WordSchemes :
        /\ IsStripped(r.text)
        /\ StartWords(r.text, r.max_chars, r.overlap, scheme)

NextWords ==
    \/ PlanStep
    \/ PlanDone
    \/ SkipBlankChunk
    \/ CallClaude
    \/ CallFails
    \/ ResponseMalformed
    \/ ResponseEmptyObject
    \/ ResponseWithoutRhymeGroups
    \/ \E rhyme_groups \in RhymeGroupLists : WordListResponse(rhyme_groups)
    \/ Return

SpecWords == InitWords /\ [][NextWords]_vars

InitAll == Init \/ InitWords

NextAll == Next \/ NextWords

SpecAll == InitAll /\ [][NextAll]_vars

---------------------------------------------------------------------------
(* memory_cache, lines 155-177 *)

\* largest capacity of memory_cache followed
MaxCacheSize == 2

\* the keys of a dict, in insertion order
RECURSIVE KeysOf(_)
KeysOf(items) ==
    IF items = <<>> THEN <<>>
    ELSE <<Head(items).key>> \o KeysOf(Tail(items))

\* key in dict
HasKey(items, key) == \E i \in 1..Len(items) : items[i].key = key

\* line 163, dict.get(key): None is the empty sequence, a value found is
\* the sequence of that value alone
DictGet(items, key) ==
    IF HasKey(items, key)
    THEN <<items[CHOOSE i \in 1..Len(items) : items[i].key = key].value>>
    ELSE <<>>

\* line 591: 'if cached_result:' of what DictGet gives; None and [] are falsy
Truthy(found) == found /= <<>> /\ found[1] /= <<>>

\* line 170, self.cache[key] = value: a key that is there keeps its place
DictSet(items, key, value) ==
    IF HasKey(items, key)
    THEN [i \in 1..Len(items) |->
            IF items[i].key = key THEN [key |-> key, value |-> value] ELSE items[i]]
    ELSE Append(items, [key |-> key, value |-> value])

\* CacheAfterSet without the pop of line 169
CacheAfterSet_NoEviction(items, capacity, key, value) ==
    DictSet(items, key, value)

\* lines 167-170, the body of set: with max_size items or more the first key of
\* the dict is popped, then the value is stored
CacheAfterSet(items, capacity, key, value) ==
    DictSet(IF Len(items) >= capacity THEN Tail(items) ELSE items, key, value)

---------------------------------------------------------------------------
(* analyze_text_route, lines 565-634, under monitor_request, lines 179-203 *)

\* a field the request object does not hold
Absent == <<"absent">>

\* a text that is no string (a number, a list)
NotAString == <<"no string">>

\* longest text validate_text_input accepts: the 10000 of line 251, scaled
MaxTextLength == 3

\* the hexadecimal digit that stands for a character of a text
HexDigit(c) == IF c = " " THEN "2" ELSE c

\* line 561, hashlib.sha256(text.encode()).hexdigest(): a string of hexadecimal
\* digits of one fixed length, different for any two texts that are accepted
sha256_hexdigest(text) ==
    [i \in 1..MaxTextLength |-> IF i <= Len(text) THEN HexDigit(text[i]) ELSE "0"]

\* the request objects followed: texts with and without blanks around them, a
\* blank text, an empty text, no text, a text that is no string, a text that is
\* too long; with a scheme and without, and with a scheme (any string is taken,
\* line 577) that ends like the key of another request.  A scheme is a string
\* given by its pieces.
RouteRequests ==
    { [text |-> <<"a">>, rhyme_scheme |-> <<"phonetic_architecture">>],
      [text |-> <<"a">>, rhyme_scheme |-> Absent],
      [text |-> <<"a">>,
       rhyme_scheme |-> <<"phonetic_architecture", "_">> \o sha256_hexdigest(<<"a">>)],
      [text |-> <<"a", " ">>, rhyme_scheme |-> <<"couplets_aa_bb">>],
      [text |-> <<" ">>, rhyme_scheme |-> <<"phonetic_architecture">>],
      [text |-> <<>>, rhyme_scheme |-> <<"couplets_aa_bb">>],
      [text |-> Absent, rhyme_scheme |-> <<"phonetic_architecture">>],
      [text |-> NotAString, rhyme_scheme |-> <<"phonetic_architecture">>],
      [text |-> [i \in 1..(MaxTextLength + 1) |-> "a"], rhyme_scheme |-> Absent] }

\* str.strip() of line 253
RECURSIVE LStrip(_)
LStrip(text) ==
    IF text /= <<>> /\ Head(text) = " " THEN LStrip(Tail(text)) ELSE text

RECURSIVE RStrip(_)
RStrip(text) ==
    IF text /= <<>> /\ text[Len(text)] = " "
    THEN RStrip(SubSeq(text, 1, Len(text) - 1))
    ELSE text

Strip(text) == RStrip(LStrip(text))

\* lines 571-574 and 249-252: the request is refused with a ValueError
Refused(data) ==
    \/ data.text = Absent
    \/ data.text = NotAString
    \/ data.text = <<>>
    \/ Len(data.text) > MaxTextLength

\* line 577: data.get('rhyme_scheme', 'phonetic_architecture')
SchemeOf(data) ==
    IF data.rhyme_scheme = Absent THEN <<"phonetic_architecture">> ELSE data.rhyme_scheme

\* generate_cache_key, were the key the digest of the text alone
generate_cache_key_TextOnly(text, rhyme_scheme) == sha256_hexdigest(text)

\* lines 559-562: the string made of the scheme, an underscore and the digest
generate_cache_key(text, rhyme_scheme) ==
    rhyme_scheme \o <<"_">> \o sha256_hexdigest(text)

\* cache_key of line 589 in thread t
cache_key(t) == generate_cache_key(route_text[t], route_scheme[t])

\* what Flask answers when the view raises (lines 280-286)
InternalError == [status |-> 500, body |-> <<[error |-> "Internal server error"]>>]

\* one item of a result that holds groups
SomeGroup == [phonetic_link_id |-> "g1"]

\* lines 569-589: a request arrives in an idle thread.  A refused request leaves
\* the view as the pair (response, 400) of lines 624-627; monitor_request reads
\* status_code of that pair (line 185), which raises, and Flask answers 500.
ReceiveRequest(t, data) ==
    /\ route_pc[t] = "idle"
    /\ IF Refused(data)
       THEN /\ route_pc' = [route_pc EXCEPT ![t] = "responded"]
            /\ response' = [response EXCEPT ![t] = InternalError]
            /\ UNCHANGED <<route_text, route_scheme>>
       ELSE /\ route_pc' = [route_pc EXCEPT ![t] = "get"]
            /\ route_text' = [route_text EXCEPT ![t] = Strip(data.text)]
            /\ route_scheme' = [route_scheme EXCEPT ![t] = SchemeOf(data)]
            /\ response' = [response EXCEPT ![t] = NoResponse]
    /\ UNCHANGED <<memory_cache, max_size, lock, route_result>>
    /\ UNCHANGED <<aggVars, parseVars>>

\* GetLock, were get entered without waiting for the lock
GetLock_NoWait(t) ==
    /\ route_pc[t] = "get"
    /\ lock' = t
    /\ route_pc' = [route_pc EXCEPT ![t] = "in_get"]
    /\ UNCHANGED <<memory_cache, max_size, route_text, route_scheme, route_result, response>>
    /\ UNCHANGED <<aggVars, parseVars>>

\* lines 161-162: memory_cache.get takes the lock
GetLock(t) ==
    /\ route_pc[t] = "get"
    /\ lock = NoThread
    /\ lock' = t
    /\ route_pc' = [route_pc EXCEPT ![t] = "in_get"]
    /\ UNCHANGED <<memory_cache, max_size, route_text, route_scheme, route_result, response>>
    /\ UNCHANGED <<aggVars, parseVars>>

\* GetReturn, were a key that is read moved behind the other keys
GetReturn_Refreshes(t) ==
    /\ route_pc[t] = "in_get"
    /\ lock' = NoThread
    /\ IF Truthy(DictGet(memory_cache, cache_key(t)))
       THEN /\ route_pc' = [route_pc EXCEPT ![t] = "responded"]
            /\ response' = [response EXCEPT ![t] =
                              [status |-> 200,
                               body |-> DictGet(memory_cache, cache_key(t))[1]]]
            /\ memory_cache' =
                  Append(SelectSeq(memory_cache, LAMBDA item : item.key /= cache_key(t)),
                         [key |-> cache_key(t),
                          value |-> DictGet(memory_cache, cache_key(t))[1]])
       ELSE /\ route_pc' = [route_pc EXCEPT ![t] = "analysis"]
            /\ UNCHANGED <<response, memory_cache>>
    /\ UNCHANGED <<max_size, route_text, route_scheme, route_result>>
    /\ UNCHANGED <<aggVars, parseVars>>

\* lines 163 and 590-597: the value is read, the lock released; a truthy value is
\* the response (cache hit), otherwise the analysis is entered
GetReturn(t) ==
    /\ route_pc[t] = "in_get"
    /\ lock' = NoThread
    /\ IF Truthy(DictGet(memory_cache, cache_key(t)))
       THEN /\ route_pc' = [route_pc EXCEPT ![t] = "responded"]
            /\ response' = [response EXCEPT ![t] =
                              [status |-> 200,
                               body |-> DictGet(memory_cache, cache_key(t))[1]]]
       ELSE /\ route_pc' = [route_pc EXCEPT ![t] = "analysis"]
            /\ UNCHANGED response
    /\ UNCHANGED <<memory_cache, max_size, route_text, route_scheme, route_result>>
    /\ UNCHANGED <<aggVars, parseVars>>

\* lines 405-406: get_rhyme_analysis_from_claude returns [] for the empty text,
\* without a call
AnalysisOfEmptyText(t) ==
    /\ route_pc[t] = "analysis"
    /\ route_text[t] = <<>>
    /\ route_result' = [route_result EXCEPT ![t] = <<>>]
    /\ route_pc' = [route_pc EXCEPT ![t] = "set"]
    /\ UNCHANGED <<memory_cache, max_size, lock, route_text, route_scheme, response>>
    /\ UNCHANGED <<aggVars, parseVars>>

\* lines 408-448: the first chunk of a stripped text that is not empty is not
\* blank, and is sent to the service
FirstCall(t) ==
    /\ route_pc[t] = "analysis"
    /\ route_text[t] /= <<>>
    /\ route_pc' = [route_pc EXCEPT ![t] = "calling"]
    /\ UNCHANGED <<memory_cache, max_size, lock, route_text, route_scheme,
                   route_result, response>>
    /\ UNCHANGED <<aggVars, parseVars>>

\* what get_rhyme_analysis_from_claude returns once a chunk has been sent: the
\* error item alone (lines 533, 538), no item, or items (line 557)
AnalysisResults == {<<ErrorItem>>, <<>>, <<SomeGroup>>}

\* lines 528-538, 557 and 600: get_rhyme_analysis_from_claude returns; it raises
\* nothing, every exception of the chunk loop is caught inside it
AnalysisReturns(t, returned) ==
    /\ route_pc[t] = "calling"
    /\ route_result' = [route_result EXCEPT ![t] = returned]
    /\ route_pc' = [route_pc EXCEPT ![t] = "set"]
    /\ UNCHANGED <<memory_cache, max_size, lock, route_text, route_scheme, response>>
    /\ UNCHANGED <<aggVars, parseVars>>

\* lines 165-166: memory_cache.set takes the lock
SetLock(t) ==
    /\ route_pc[t] = "set"
    /\ lock = NoThread
    /\ lock' = t
    /\ route_pc' = [route_pc EXCEPT ![t] = "in_set"]
    /\ UNCHANGED <<memory_cache, max_size, route_text, route_scheme, route_result, response>>
    /\ UNCHANGED <<aggVars, parseVars>>

\* lines 167-170 and 603-610: the result is stored, the lock released, and the
\* result is the response
SetReturn(t) ==
    /\ route_pc[t] = "in_set"
    /\ memory_cache' = CacheAfterSet(memory_cache, max_size, cache_key(t), route_result[t])
    /\ lock' = NoThread
    /\ route_pc' = [route_pc EXCEPT ![t] = "responded"]
    /\ response' = [response EXCEPT ![t] = [status |-> 200, body |-> route_result[t]]]
    /\ UNCHANGED <<max_size, route_text, route_scheme, route_result>>
    /\ UNCHANGED <<aggVars, parseVars>>

\* the response is sent and the thread is free for the next request
Finish(t) ==
    /\ route_pc[t] = "responded"
    /\ route_pc' = [route_pc EXCEPT ![t] = "idle"]
    /\ route_text' = [route_text EXCEPT ![t] = <<>>]
    /\ route_scheme' = [route_scheme EXCEPT ![t] = <<>>]
    /\ route_result' = [route_result EXCEPT ![t] = <<>>]
    /\ UNCHANGED <<memory_cache, max_size, lock, response>>
    /\ UNCHANGED <<aggVars, parseVars>>

\* no analysis is followed step by step in the route specification
AggIdle ==
    /\ rhyme_scheme_key = ""
    /\ calls = <<>>
    /\ warnings = <<>>
    /\ text_to_analyze = <<>>
    /\ MAX_CHARS_PER_CHUNK_RHYME = 1
    /\ CHUNK_OVERLAP_CHARS_RHYME = 0
    /\ pc = "idle"
    /\ chunk_starts = <<>>
    /\ current_pos = 0
    /\ chunk_idx = 0
    /\ processed_segment_groups = <<>>
    /\ group_data_from_ai = NoGroup
    /\ valid_segments_in_this_ai_group = <<>>
    /\ seg_taken = FALSE
    /\ result = <<>>

InitRoute ==
    /\ AggIdle
    /\ ParseIdle
    /\ \E capacity \in 1..MaxCacheSize : RouteIdle(capacity)

NextRoute ==
    \E t \in Threads :
        \/ \E data \in RouteRequests : ReceiveRequest(t, data)
        \/ GetLock(t)
        \/ GetReturn(t)
        \/ AnalysisOfEmptyText(t)
        \/ FirstCall(t)
        \/ \E returned \in AnalysisResults : AnalysisReturns(t, returned)
        \/ SetLock(t)
        \/ SetReturn(t)
        \/ Finish(t)

SpecRoute == InitRoute /\ [][NextRoute]_vars

---------------------------------------------------------------------------
(* The merged segments *)

\* the segments of the merged result, as (group position, segment position) pairs
MergedPositions ==
    {p \in (1..Len(processed_segment_groups)) \X (1..MaxSegmentsHeld) :
        p[2] <= Len(processed_segment_groups[p[1]].segments)}

MergedSegment(p) == processed_segment_groups[p[1]].segments[p[2]]

\* the group record in hand reuses the identifier of merged group i
ReusesGroup(i) ==
    processed_segment_groups[i].phonetic_link_id = group_data_from_ai.phonetic_link_id

\* C1: every segment that survived validation, in hand or merged into a group, has
\* 0 <= globalStartIndex < globalEndIndex <= L.
C1_IndicesInRange ==
    /\ \A p \in MergedPositions :
          IndicesValid(MergedSegment(p).globalStartIndex, MergedSegment(p).globalEndIndex)
    /\ \A i \in 1..Len(valid_segments_in_this_ai_group) :
          IndicesValid(valid_segments_in_this_ai_group[i].globalStartIndex,
                       valid_segments_in_this_ai_group[i].globalEndIndex)

\* a segment that ends at the end of the text is merged, answers of the last of
\* several chunks being taken
C1_Witness ==
    /\ pc = "groups"
    /\ chunk_idx = Len(chunk_starts)
    /\ chunk_idx > 1
    /\ \E p \in MergedPositions :
          MergedSegment(p).globalEndIndex = original_text_length

\* C2: a segment accepted from the chunk that starts at offset s is stored with the
\* accepted (clamped) indices plus s.
C2_Translated ==
    [][\A seg \in RawSegments :
          (/\ ValidateSegment(seg)
           /\ Len(valid_segments_in_this_ai_group')
                = Len(valid_segments_in_this_ai_group) + 1)
          => LET stored == valid_segments_in_this_ai_group'[
                               Len(valid_segments_in_this_ai_group')]
             IN  /\ stored.globalStartIndex
                      = ClampStart(seg.globalStartIndex) + chunk_start_offset
                 /\ stored.globalEndIndex
                      = ClampEnd(seg.globalEndIndex) + chunk_start_offset]_vars

\* the groups of the returned result, none when the error item is returned
FinalGroups == IF pc = "done" /\ result /= <<ErrorItem>> THEN result ELSE <<>>

\* C3: for every segment of the final result the text between its globalStartIndex
\* and globalEndIndex is its text field.
C3_TextMatches ==
    \A i \in 1..Len(FinalGroups) :
        \A j \in 1..Len(FinalGroups[i].segments) :
            LET seg == FinalGroups[i].segments[j]
            IN  Slice(text_to_analyze, seg.globalStartIndex, seg.globalEndIndex) = seg.text

\* C4: no group holds two segments with equal (globalStartIndex, globalEndIndex,
\* parent_word_text), duplicates inside the batch that creates the group included.
C4_NoDuplicateSegments ==
    \A i \in 1..Len(processed_segment_groups) :
        LET segments == processed_segment_groups[i].segments
        IN  \A j, k \in 1..Len(segments) :
                (/\ segments[j].globalStartIndex = segments[k].globalStartIndex
                 /\ segments[j].globalEndIndex = segments[k].globalEndIndex
                 /\ segments[j].parent_word_text = segments[k].parent_word_text)
                => j = k

\* C5: a group, once created, keeps its place, its identifier and its description
\* through every later step.
C5_FirstDescriptionWins ==
    [][\A i \in 1..Len(processed_segment_groups) :
          /\ i <= Len(processed_segment_groups')
          /\ processed_segment_groups'[i].phonetic_link_id
               = processed_segment_groups[i].phonetic_link_id
          /\ processed_segment_groups'[i].pattern_description
               = processed_segment_groups[i].pattern_description]_vars

\* a record of a later chunk that reuses an identifier with another description has
\* been merged into the group, which holds two segments by now
C5_Witness ==
    /\ pc = "groups"
    /\ chunk_idx > 1
    /\ \E i \in 1..Len(processed_segment_groups) :
          /\ ReusesGroup(i)
          /\ processed_segment_groups[i].pattern_description
               /= group_data_from_ai.pattern_description
          /\ Len(processed_segment_groups[i].segments) >= 2

\* C6: no two groups of the merged result have the same phonetic_link_id.
C6_OneGroupPerId ==
    \A i, j \in 1..Len(processed_segment_groups) :
        processed_segment_groups[i].phonetic_link_id
            = processed_segment_groups[j].phonetic_link_id
        => i = j

\* two groups are merged and the record just merged reuses the identifier of the
\* first of them
C6_Witness ==
    /\ pc = "groups"
    /\ Len(processed_segment_groups) = 2
    /\ ReusesGroup(1)
    /\ Len(processed_segment_groups[1].segments) >= 2

---------------------------------------------------------------------------
(* The planned chunks *)

\* the while loop of lines 410-419 has exited
Planned == pc /= "plan"

NumChunks == Len(chunk_starts)

\* lines 422-423: the i-th chunk is [ChunkStartAt(i), ChunkEndAt(i))
ChunkStartAt(i) == chunk_starts[i]
ChunkEndAt(i) == ChunkEnd(chunk_starts[i])

\* C7: a text no longer than the chunk size (overlap smaller than the chunk size)
\* is planned as exactly one chunk, [0, L).
C7_SingleChunk ==
    (Planned /\ original_text_length <= MAX_CHARS_PER_CHUNK_RHYME
             /\ CHUNK_OVERLAP_CHARS_RHYME < MAX_CHARS_PER_CHUNK_RHYME)
        => (NumChunks = 1 /\ ChunkStartAt(1) = 0 /\ ChunkEndAt(1) = original_text_length)

\* chunk starts strictly increase, the first is 0 and no chunk starts after the end
\* of the one before it: holds of the list while it is built and when it is done
StartsOrdered ==
    /\ NumChunks >= 1 => ChunkStartAt(1) = 0
    /\ \A i \in 1..(NumChunks - 1) :
          /\ ChunkStartAt(i) < ChunkStartAt(i + 1)
          /\ ChunkStartAt(i + 1) <= ChunkEndAt(i)

\* C8: for every text length and every configuration the planned chunks have
\* strictly increasing starts, the first starts at 0, each starts no later than the
\* end of the one before, and the last ends at L.
C8_Covering ==
    /\ StartsOrdered
    /\ Planned => (NumChunks >= 1 /\ ChunkEndAt(NumChunks) = original_text_length)

\* What is left of C8 when the planning loop ends: every finished plan covers [0, L)
\* without a gap.
C8_CoveringWhenPlanned == Planned => C8_Covering

\* C9: for a text longer than the chunk size (overlap smaller than the chunk size)
\* every chunk but the last has length exactly the chunk size, and two consecutive
\* chunks neither of which is the last overlap by exactly the overlap.
C9_ExactOverlap ==
    (Planned /\ original_text_length > MAX_CHARS_PER_CHUNK_RHYME
             /\ CHUNK_OVERLAP_CHARS_RHYME < MAX_CHARS_PER_CHUNK_RHYME)
        => /\ \A i \in 1..(NumChunks - 1) :
                 ChunkEndAt(i) - ChunkStartAt(i) = MAX_CHARS_PER_CHUNK_RHYME
           /\ \A i \in 1..(NumChunks - 2) :
                 ChunkEndAt(i) - ChunkStartAt(i + 1) = CHUNK_OVERLAP_CHARS_RHYME

\* C10: every iteration of the planning loop strictly increases the start offset,
\* for every chunk size >= 1, every overlap >= 0 and every text length >= 1.
C10_Progress == [][PlanStep => current_pos' > current_pos]_vars

---------------------------------------------------------------------------
(* Failed calls and malformed responses *)

\* C11: when the call for a chunk fails the function is over at once: it returns
\* the error item alone, none of the groups merged from the chunks before, and
\* once it has returned no further chunk is sent to the service.
C11_FailureAborts ==
    [][ /\ CallFails => (pc' = "done" /\ result' = <<ErrorItem>>)
        /\ pc = "done" => (pc' = "done" /\ calls' = calls /\ result' = result) ]_vars

\* a call failed after groups of an earlier chunk had been merged
C11_Witness ==
    /\ pc = "done"
    /\ result = <<ErrorItem>>
    /\ Len(calls) >= 2
    /\ processed_segment_groups /= <<>>

\* C12: a chunk whose response is unusable (no JSON object, undecodable, the
\* required key missing or no list) does not end the request: the groups merged
\* so far stay as they are, the loop goes on to the next chunk, and what is
\* returned at the end of the loop is exactly the groups merged from the other chunks.
C12_MalformedSkipped ==
    [][ /\ ResponseMalformed =>
              /\ processed_segment_groups' = processed_segment_groups
              /\ pc' = "chunks"
              /\ chunk_idx' = chunk_idx + 1
              /\ result' = result
        /\ (warnings /= <<>> /\ Return) => result' = processed_segment_groups ]_vars

\* the first of two chunks was unusable, the groups of the second are returned
C12_Witness ==
    /\ pc = "done"
    /\ warnings = <<0>>
    /\ Len(calls) = 2
    /\ result = processed_segment_groups
    /\ result /= <<>>

---------------------------------------------------------------------------
(* Order of the calls *)

\* C19: within one request the chunks are sent in strictly increasing order of
\* their start offsets, each at most once, and while a call is out nothing of the
\* response before it is still waiting to be validated or merged.
C19_SequentialCalls ==
    /\ \A i \in 1..(Len(calls) - 1) : calls[i] < calls[i + 1]
    /\ pc = "call" =>
          /\ calls[Len(calls)] = chunk_start_offset
          /\ group_data_from_ai = NoGroup
          /\ valid_segments_in_this_ai_group = <<>>
          /\ ~seg_taken

\* the second chunk is out, the groups of the first are merged
C19_Witness ==
    /\ pc = "call"
    /\ Len(calls) = 2
    /\ processed_segment_groups /= <<>>

---------------------------------------------------------------------------
(* The word-based result *)

\* the word-group records of a returned list of items, item after item
RECURSIVE RecordsOf(_)
RecordsOf(items) ==
    IF items = <<>> THEN <<>>
    ELSE Head(items).data \o RecordsOf(Tail(items))

\* C17: for a word-based scheme the returned result holds no two equal word-group
\* records: a record that is there already is not added again, also when it comes
\* back in a later chunk together with other records.
C17_NoDuplicateRecords ==
    (rhyme_scheme_key \in WordSchemes)
        => \A i, j \in 1..Len(RecordsOf(FinalGroups)) :
               RecordsOf(FinalGroups)[i] = RecordsOf(FinalGroups)[j] => i = j

---------------------------------------------------------------------------
(* Order of the result *)

\* item i of the result after a step is item i before it, grown at most: a group
\* keeps its identifier and its segments in their order, a word item is unchanged
SameItem(before, after) ==
    IF rhyme_scheme_key = "phonetic_architecture"
    THEN /\ after.phonetic_link_id = before.phonetic_link_id
         /\ Len(after.segments) >= Len(before.segments)
         /\ SubSeq(after.segments, 1, Len(before.segments)) = before.segments
    ELSE after = before

\* C18: the groups (or word items) of the result stand in the order in which they
\* were first met: a step adds at most one, at the end, and never moves or
\* removes one that is there; the list returned is the list so built.
C18_FirstEncounterOrder ==
    [][ /\ Len(processed_segment_groups') \in
              {Len(processed_segment_groups), Len(processed_segment_groups) + 1}
        /\ \A i \in 1..Len(processed_segment_groups) :
              SameItem(processed_segment_groups[i], processed_segment_groups'[i])
        /\ (pc' = "done" /\ result' /= <<ErrorItem>>)
              => result' = processed_segment_groups ]_vars

\* two groups are there, and a record of the second chunk has been merged into
\* the first of them
C18_Witness ==
    /\ rhyme_scheme_key = "phonetic_architecture"
    /\ pc = "groups"
    /\ Len(calls) = 2
    /\ Len(processed_segment_groups) = 2
    /\ ReusesGroup(1)
    /\ Len(processed_segment_groups[1].segments) = 2

---------------------------------------------------------------------------
(* The route and its cache *)

\* C13: a request one of whose calls failed stores nothing in memory_cache, so
\* that no later request for the same text and scheme is answered from the
\* cache with that failure.
C13_FailureNotCached ==
    \A i \in 1..Len(memory_cache) : memory_cache[i].value /= <<ErrorItem>>

\* C14: memory_cache never holds more than max_size items, whatever the
\* interleaving of the get and set calls of the request threads.
C14_CapacityRespected == Len(memory_cache) <= max_size

\* the cache of capacity 2 is full and the item a thread stored with its
\* response has been evicted since
C14_Witness ==
    /\ max_size = 2
    /\ Len(memory_cache) = 2
    /\ \E t \in Threads :
          /\ route_pc[t] = "responded"
          /\ route_result[t] = <<SomeGroup>>
          /\ response[t].body = route_result[t]
          /\ ~HasKey(memory_cache, cache_key(t))

\* C15: a set that puts a new key into a full cache evicts the key inserted
\* first among those present and keeps the other items as they are, and a get
\* changes neither the items nor their order.
C15_OldestEvicted ==
    [][\A t \in Threads :
          /\ (/\ route_pc[t] = "in_set"
              /\ route_pc'[t] = "responded"
              /\ Len(memory_cache) = max_size
              /\ ~HasKey(memory_cache, cache_key(t)))
                => /\ memory_cache' /= <<>>
                   /\ SubSeq(memory_cache', 1, Len(memory_cache') - 1)
                        = Tail(memory_cache)
                   /\ memory_cache'[Len(memory_cache')].key = cache_key(t)
          /\ (route_pc[t] = "in_get" /\ route_pc'[t] /= "in_get")
                => memory_cache' = memory_cache]_vars

\* capacity 2: a thread was answered from the cache with the item of key A; a
\* new key was stored after that by the other thread; A is gone and the key that
\* stood behind A is still there
C15_Witness ==
    /\ max_size = 2
    /\ Len(memory_cache) = 2
    /\ \E t, u \in Threads :
          /\ t /= u
          /\ route_pc[t] = "responded"
          /\ route_result[t] = <<>>
          /\ response[t] = [status |-> 200, body |-> <<SomeGroup>>]
          /\ ~HasKey(memory_cache, cache_key(t))
          /\ route_pc[u] = "responded"
          /\ route_result[u] = <<SomeGroup>>
          /\ memory_cache[2].key = cache_key(u)

\* C16: while memory_cache holds the item of a request whose analysis ended
\* without a failure, whatever its result, also one without groups, a request
\* for the same text and scheme is answered from the cache and enters no analysis.
C16_HitWhilePresent ==
    [][\A t \in Threads :
          (/\ route_pc[t] = "in_get"
           /\ HasKey(memory_cache, cache_key(t))
           /\ DictGet(memory_cache, cache_key(t)) /= <<(<<ErrorItem>>)>>)
             => route_pc'[t] \in {"in_get", "responded"}]_vars

\* C20: a request one of whose calls failed is answered with an error envelope
\* of the service-unavailable kind, never with a response of status 200.
C20_FailureIsErrorResponse ==
    \A t \in Threads :
        (route_pc[t] = "responded" /\ route_result[t] = <<ErrorItem>>)
            => /\ response[t].status = 503
               /\ response[t].body /= <<ErrorItem>>

---------------------------------------------------------------------------
(* Requests that are refused *)

\* C21: a request whose text is missing, no string, empty or too long is answered
\* with a validation error, before any cache lookup, cache write or call: the
\* cache and its lock are as they were and the thread has its response.
C21_RejectedAsValidationError ==
    [][\A t \in Threads, data \in RouteRequests :
          (Refused(data) /\ ReceiveRequest(t, data))
            => /\ response'[t].status = 400
               /\ route_pc'[t] = "responded"
               /\ memory_cache' = memory_cache
               /\ lock' = lock]_vars

\* What is left of C21 without the kind of the response: a refused request is
\* answered at once and touches neither the cache nor its lock.
C21_RejectedBeforeCache ==
    [][\A t \in Threads, data \in RouteRequests :
          (Refused(data) /\ ReceiveRequest(t, data))
            => /\ route_pc'[t] = "responded"
               /\ memory_cache' = memory_cache
               /\ lock' = lock]_vars

---------------------------------------------------------------------------
(* The cache key *)

\* C22: the key is a function of the text and the scheme that tells any two
\* pairs apart: two requests have the same key exactly when they have the same
\* text and the same scheme, and each item of the cache stands under the key of
\* one pair only, so a text under two schemes has two items.
C22_KeyTellsPairsApart ==
    /\ \A t, u \in Threads :
          (cache_key(t) = cache_key(u))
             <=> (route_text[t] = route_text[u] /\ route_scheme[t] = route_scheme[u])
    /\ \A i, j \in 1..Len(memory_cache) :
          memory_cache[i].key = memory_cache[j].key => i = j

\* the two threads have stored the results of one text under two schemes, and
\* the cache holds both
C22_Witness ==
    /\ Len(memory_cache) = 2
    /\ \E t, u \in Threads :
          /\ route_pc[t] = "responded"
          /\ route_pc[u] = "responded"
          /\ route_text[t] = route_text[u]
          /\ route_text[t] /= <<>>
          /\ route_scheme[t] /= route_scheme[u]
          /\ memory_cache[1].key = cache_key(t)
          /\ memory_cache[2].key = cache_key(u)
          /\ memory_cache[1].value = <<SomeGroup>>
          /\ memory_cache[2].value = <<>>

---------------------------------------------------------------------------
(* The lock of the cache *)

\* the threads inside memory_cache.get or memory_cache.set
InsideCache == {t \in Threads : route_pc[t] \in {"in_get", "in_set"}}

\* C23: at most one thread is inside get or set at a time, the lock is held by
\* that thread and by no thread when none is inside; in particular a thread
\* that waits for the service does not hold it.
C23_LockOnlyInsideCache ==
    /\ Cardinality(InsideCache) <= 1
    /\ \A t \in Threads : (lock = t) <=> (t \in InsideCache)
    /\ (InsideCache = {}) => lock = NoThread
    /\ \A t \in Threads : route_pc[t] = "calling" => lock /= t

\* one thread waits for the service while the other is inside set
C23_Witness ==
    \E t, u \in Threads :
        /\ route_pc[t] = "calling"
        /\ route_pc[u] = "in_set"
        /\ lock = u

---------------------------------------------------------------------------
(* Clamping against the chunk *)

\* length of the chunk in hand
WindowLen == ChunkEnd(chunk_start_offset) - chunk_start_offset

\* the indices of a reported segment clamped against the length of the chunk
WindowClampStart(gs) == Max(0, Min(gs, WindowLen - 1))
WindowClampEnd(ge) == Max(0, Min(ge, WindowLen))

\* C24: a reported segment is clamped against the length of its own chunk, the
\* start into [0, WindowLen - 1] and the end into [0, WindowLen]; it is kept
\* exactly when the clamped start is below the clamped end, with the length the
\* clamped indices give it, and the segments of the group validated before it
\* stay whether it is kept or dropped.
C24_ClampedToWindow ==
    [][\A seg \in RawSegments :
          ValidateSegment(seg) =>
            LET valid == valid_segments_in_this_ai_group
                after == valid_segments_in_this_ai_group'
                cs == WindowClampStart(seg.globalStartIndex)
                ce == WindowClampEnd(seg.globalEndIndex)
            IN  /\ SubSeq(after, 1, Len(valid)) = valid
                /\ (Len(after) = Len(valid) + 1) <=> (cs < ce)
                /\ (Len(after) = Len(valid) + 1) =>
                      after[Len(after)].globalEndIndex
                         - after[Len(after)].globalStartIndex = ce - cs]_vars

\* What is left of C24 without the bounds of the clamp: a segment that is dropped
\* takes no segment of its group with it.
C24_OthersKept ==
    [][\A seg \in RawSegments :
          ValidateSegment(seg) =>
            SubSeq(valid_segments_in_this_ai_group', 1,
                   Len(valid_segments_in_this_ai_group))
               = valid_segments_in_this_ai_group]_vars

---------------------------------------------------------------------------
(* Warnings *)

\* C25: a chunk whose response gives nothing because no JSON object is found, it
\* does not decode, it is the empty object or it lacks the key of the scheme, for
\* either kind of scheme, adds exactly one warning, and a chunk whose response
\* holds the list of the scheme adds none.
C25_OneWarningPerMalformed ==
    [][ /\ (ResponseMalformed \/ ResponseEmptyObject \/ ResponseWithoutRhymeGroups)
              => Len(warnings') = Len(warnings) + 1
        /\ (ResponseParsed \/ \E rhyme_groups \in RhymeGroupLists :
                                 WordListResponse(rhyme_groups))
              => warnings' = warnings ]_vars

---------------------------------------------------------------------------
(* Extraction of the JSON object from one response, lines 455-467 *)

(* A response text is a sequence of pieces: "fence" (three backticks) and      *)
(* "json" (a fenced block opens with the two), "{" and "}", "\\" (one backslash), "s" (the letter s or *)
(* S), " " (white space), "g" (the text "phonetic_segment_groups": [...] with *)
(* groups in the list) and "x" (other text, no JSON).                         *)

\* the pattern of line 460 is written r"<fence>json\\s*([\\s\\S]*?)\\s*<fence>|({[\\s\\S]*})"
\* in a raw string: to the regex engine \\ is a backslash and s, S are letters, so
\* the class [\\s\\S] holds the backslash and the letters s and S
InClass(c) == c \in {"\\", "s"}

\* first position from a on of a piece outside the class, Len + 1 if there is none
RECURSIVE ClassRunEnd(_, _)
ClassRunEnd(raw, a) ==
    IF a > Len(raw) \/ ~InClass(raw[a]) THEN a ELSE ClassRunEnd(raw, a + 1)

\* first position from a on of a piece that is not the letter s
RECURSIVE LettersEnd(_, _)
LettersEnd(raw, a) ==
    IF a > Len(raw) \/ raw[a] /= "s" THEN a ELSE LettersEnd(raw, a + 1)

\* the positions of the backslashes in a..(e - 1)
Backslashes(raw, a, e) == {k \in a..(e - 1) : raw[k] = "\\"}

\* the first alternative, <fence>json\\s*([\\s\\S]*?)\\s*<fence>, matches at position i:
\* the fence, json, a backslash, then pieces of the class up to a fence, the last
\* backslash among them being the one before the closing s*
FenceMatches(raw, i) ==
    /\ i + 3 <= Len(raw)
    /\ raw[i] = "fence" /\ raw[i + 1] = "json" /\ raw[i + 2] = "\\"
    /\ ClassRunEnd(raw, i + 3) <= Len(raw)
    /\ raw[ClassRunEnd(raw, i + 3)] = "fence"
    /\ Backslashes(raw, i + 3, ClassRunEnd(raw, i + 3)) /= {}

\* group(1) of that match: the greedy s* takes the letters s in front, the lazy
\* group the pieces up to the last backslash
FenceGroup(raw, i) ==
    LET e == ClassRunEnd(raw, i + 3)
        last == CHOOSE k \in Backslashes(raw, i + 3, e) :
                   \A m \in Backslashes(raw, i + 3, e) : m <= k
        first == LettersEnd(raw, i + 3)
    IN  SubSeq(raw, first, last - 1)

\* the second alternative, ({[\\s\\S]*}), matches at position i: "{", pieces of the
\* class, "}"
BraceMatches(raw, i) ==
    /\ i + 1 <= Len(raw)
    /\ raw[i] = "{"
    /\ ClassRunEnd(raw, i + 1) <= Len(raw)
    /\ raw[ClassRunEnd(raw, i + 1)] = "}"

\* group(2) of that match
BraceGroup(raw, i) == SubSeq(raw, i, ClassRunEnd(raw, i + 1))

\* the positions at which re.search finds a match
MatchPositions(raw) ==
    {i \in 1..Len(raw) : FenceMatches(raw, i) \/ BraceMatches(raw, i)}

\* lines 460-461: json_match.group(1) or json_match.group(2) of the leftmost
\* match, None without a match or with an empty group(1)
SearchedJson(raw) ==
    IF MatchPositions(raw) = {} THEN NoneStr
    ELSE LET i == CHOOSE k \in MatchPositions(raw) :
                     \A m \in MatchPositions(raw) : k <= m
         IN  IF FenceMatches(raw, i)
             THEN (IF FenceGroup(raw, i) = <<>> THEN NoneStr ELSE FenceGroup(raw, i))
             ELSE BraceGroup(raw, i)

\* lines 456-461: json_str for a response text
LocatedJson(raw) ==
    IF Strip(raw) /= <<>> /\ Head(Strip(raw)) = "{" /\ Strip(raw)[Len(Strip(raw))] = "}"
    THEN Strip(raw)
    ELSE SearchedJson(raw)

\* a JSON object with groups under the key of the scheme
GroupsObject == <<"{", "g", "}">>

\* line 465, json.loads: the kind of value a text decodes to, "error" for a
\* JSONDecodeError
Decoded(str) ==
    IF Strip(str) = GroupsObject \/ Strip(str) = <<"{", " ", "g", " ", "}">> THEN "groups"
    ELSE IF Strip(str) = <<"{", "}">> \/ Strip(str) = <<"{", " ", "}">> THEN "empty"
    ELSE "error"

\* what stands in front of and behind the middle of a response text
Around == {<<>>, <<" ">>, <<"x">>, <<"x", " ">>, <<" ", "x">>}

\* the middles of the response texts followed: an object with groups, bare or in
\* a fenced block, an empty object, braces around letters s, fenced blocks
\* with backslashes, two objects, no object
Middles ==
    { GroupsObject,
      <<"fence", "json", " ">> \o GroupsObject \o <<" ", "fence">>,
      <<"fence", "json">> \o GroupsObject \o <<"fence">>,
      <<"fence", "json", "\\">> \o GroupsObject \o <<"\\", "fence">>,
      <<"fence", "json", "\\", "s", "\\", "s", "\\", "s", "fence">>,
      <<"fence", "json", "\\", "\\", "fence">>,
      <<"{", "}">>,
      <<"{", "s", "\\", "}">>,
      GroupsObject \o <<"x">> \o GroupsObject,
      <<"x">>,
      <<>> }

\* the response texts followed
RawResponses == {a \o m \o b : a \in Around, m \in Middles, b \in Around}

\* line 455: the text of a response is taken
ReceiveResponse(raw) ==
    /\ parse_pc = "idle"
    /\ raw_response_text' = raw
    /\ parse_pc' = "received"
    /\ UNCHANGED <<json_str, claude_output_chunk>>
    /\ UNCHANGED <<aggVars, routeVars>>

\* lines 456-461: json_str is set
LocateJson ==
    /\ parse_pc = "received"
    /\ json_str' = LocatedJson(raw_response_text)
    /\ parse_pc' = "located"
    /\ UNCHANGED <<raw_response_text, claude_output_chunk>>
    /\ UNCHANGED <<aggVars, routeVars>>

\* lines 463-467: a json_str that is not None is decoded; None and a text that
\* does not decode leave claude_output_chunk None
DecodeJson ==
    /\ parse_pc = "located"
    /\ claude_output_chunk' =
          IF json_str = NoneStr \/ Decoded(json_str) = "error"
          THEN "None"
          ELSE Decoded(json_str)
    /\ parse_pc' = "decoded"
    /\ UNCHANGED <<raw_response_text, json_str>>
    /\ UNCHANGED <<aggVars, routeVars>>

InitParse ==
    /\ AggIdle
    /\ RouteIdle(1)
    /\ ParseIdle

NextParse ==
    \/ \E raw \in RawResponses : ReceiveResponse(raw)
    \/ LocateJson
    \/ DecodeJson

SpecParse == InitParse /\ [][NextParse]_vars

\* the response text holds an object with groups in a fenced block or between
\* other text, and is not an object as a whole
HoldsGroupsObject(raw) ==
    /\ ~(Strip(raw) /= <<>> /\ Head(Strip(raw)) = "{" /\ Strip(raw)[Len(Strip(raw))] = "}")
    /\ \E i \in 1..Len(raw) :
          /\ i + 2 <= Len(raw)
          /\ SubSeq(raw, i, i + 2) = GroupsObject
          /\ \A k \in 1..Len(raw) : raw[k] \in {"{", "}"} => k \in {i, i + 2}

\* C26: when the response is no object as a whole but holds one well-formed
\* object, in a fenced block or between other text, that object is located and
\* decoded, so that the chunk contributes its groups.
C26_EmbeddedObjectLocated ==
    (parse_pc = "decoded" /\ HoldsGroupsObject(raw_response_text))
        => (json_str = GroupsObject /\ claude_output_chunk = "groups")

---------------------------------------------------------------------------
(* Groups without segments *)

\* C27: every group of the merged result holds at least one segment after every
\* step: a group record none of whose segments is valid creates no group, and no
\* step takes a segment away from a group.
C27_NoEmptyGroup ==
    [][ /\ \A i \in 1..Len(processed_segment_groups') :
              Len(processed_segment_groups'[i].segments) >= 1
        /\ \A i \in 1..Len(processed_segment_groups) :
              /\ i <= Len(processed_segment_groups')
              /\ Len(processed_segment_groups'[i].segments)
                    >= Len(processed_segment_groups[i].segments) ]_vars

\* a group record with a new identifier has been through the merge with none of
\* its segments valid: no group carries its identifier, another group is there
C27_Witness ==
    /\ pc = "groups"
    /\ group_data_from_ai /= NoGroup
    /\ processed_segment_groups /= <<>>
    /\ \A i \in 1..Len(processed_segment_groups) : ~ReusesGroup(i)

---------------------------------------------------------------------------
(* set on a key that is there *)

\* C28: a set on a key the cache holds already only replaces the value under
\* that key: the number of items is unchanged and every other item stays, also
\* when the cache is full.
C28_SetOnPresentKeyReplaces ==
    [][\A t \in Threads :
          (/\ route_pc[t] = "in_set"
           /\ route_pc'[t] = "responded"
           /\ HasKey(memory_cache, cache_key(t)))
             => /\ Len(memory_cache') = Len(memory_cache)
                /\ DictGet(memory_cache', cache_key(t)) = <<route_result[t]>>
                /\ \A i \in 1..Len(memory_cache) :
                      memory_cache[i].key /= cache_key(t)
                         => \E j \in 1..Len(memory_cache') :
                               memory_cache'[j] = memory_cache[i]]_vars

---------------------------------------------------------------------------
(* Chunks of blanks *)

\* the chunks of line 422 the loop has taken in hand so far
ChunksTaken ==
    IF pc = "plan" THEN 0
    ELSE IF pc = "chunks" THEN chunk_idx - 1
    ELSE Min(chunk_idx, Len(chunk_starts))

\* the start offsets, among the first n chunks, of those line 425 lets through
RECURSIVE NonBlankStarts(_)
NonBlankStarts(n) ==
    IF n = 0 THEN <<>>
    ELSE IF IsBlank(ChunkText(chunk_starts[n]))
         THEN NonBlankStarts(n - 1)
         ELSE Append(NonBlankStarts(n - 1), chunk_starts[n])

\* C29: a chunk that holds blanks only is skipped: no call is made for it, the
\* merged groups stay as they are and the loop goes on with the next chunk; so
\* the calls made are those of the non-blank chunks up to and including the
\* first one whose call raises.
C29_BlankChunkSkipped ==
    /\ [](calls = NonBlankStarts(ChunksTaken))
    /\ [][ (/\ pc = "chunks"
            /\ chunk_idx <= Len(chunk_starts)
            /\ IsBlank(ChunkText(chunk_start_offset)))
              => /\ calls' = calls
                 /\ processed_segment_groups' = processed_segment_groups
                 /\ pc' = "chunks"
                 /\ chunk_idx' = chunk_idx + 1 ]_vars

\* a request three chunks long whose blank middle chunk was passed over and
\* whose third chunk was sent
C29_Witness ==
    /\ Len(chunk_starts) = 3
    /\ IsBlank(ChunkText(chunk_starts[2]))
    /\ calls = <<chunk_starts[1], chunk_starts[3]>>
    /\ pc = "done"

=============================================================================
